---- MODULE Spec2Model ----
(***************************************************************************)
(* Model of invenio_administration: the Administration view registry       *)
(* (admin.py) and the admin view base classes (views/base.py).             *)
(*                                                                         *)
(* Python strings that the code formats, tests with startswith or          *)
(* lower-cases are sequences of one-character strings.  Python's None and  *)
(* a raised AttributeError are one-element sequences holding a token that  *)
(* is no character, so they differ from every string.  Class names,        *)
(* extension names, categories and configuration keys are only compared,   *)
(* never taken apart, and are plain TLA+ strings.                          *)
(***************************************************************************)
EXTENDS FiniteSets, Integers, Sequences, TLC

VARIABLES
    admin,      \* the Administration object (status "none" before __init__)
    _views,     \* Administration._views: the view functions, in call order
    _menu,      \* the items of Administration._menu
    blueprint,  \* the url rules added to Administration.blueprint
    passed,     \* history: the view_instance of every add_view call
    inst,       \* the view instance a client last constructed
    rescls,     \* the resource-bound view class of the run
    resource,   \* its class attribute resource
    schema,     \* its class attribute schema
    out         \* the outcome of the last call on the resource-bound view

vars == <<admin, _views, _menu, blueprint, passed, inst,
          rescls, resource, schema, out>>

regvars == <<admin, _views, _menu, blueprint, passed>>
resvars == <<rescls, resource, schema>>

(***************************************************************************)
(* Bounds                                                                  *)
(***************************************************************************)
\* add_view calls made after the constructor's own dashboard registration
MaxViews == 2

(***************************************************************************)
(* Python values                                                           *)
(***************************************************************************)
None == <<"<NoneType>">>
AttributeError == <<"<AttributeError>">>

Truthy(x) == x # None /\ x # <<>>

\* "%s" % x  (str(None) is the four characters None)
PyStr(x) == IF x = None THEN <<"N", "o", "n", "e">> ELSE x

startswith(s, c) == s # <<>> /\ Head(s) = c

UpperChars ==
    <<"A", "B", "C", "D", "E", "F", "G", "H", "I", "J", "K", "L", "M",
      "N", "O", "P", "Q", "R", "S", "T", "U", "V", "W", "X", "Y", "Z">>

LowerChars ==
    <<"a", "b", "c", "d", "e", "f", "g", "h", "i", "j", "k", "l", "m",
      "n", "o", "p", "q", "r", "s", "t", "u", "v", "w", "x", "y", "z">>

lower(s) ==
    [i \in 1..Len(s) |->
        IF \E k \in 1..26 : UpperChars[k] = s[i]
        THEN LowerChars[CHOOSE k \in 1..26 : UpperChars[k] = s[i]]
        ELSE s[i]]

upper(s) ==
    [i \in 1..Len(s) |->
        IF \E k \in 1..26 : LowerChars[k] = s[i]
        THEN UpperChars[CHOOSE k \in 1..26 : LowerChars[k] = s[i]]
        ELSE s[i]]

\* the literals of admin.py and views/base.py
DefaultEndpoint ==
    <<"a", "d", "m", "i", "n", "i", "s", "t", "r", "a", "t", "i", "o", "n">>
DefaultUrl == <<"/">> \o DefaultEndpoint
DefaultName == <<"A">> \o Tail(DefaultEndpoint)
DefaultBaseTemplate == "invenio_administration/base.html"
DashboardExtension == "invenio-administration"
\* __name__ of views/base.py, the default of the name argument
ModuleName ==
    <<"i", "n", "v", "e", "n", "i", "o", "_">> \o DefaultEndpoint
        \o <<".", "v", "i", "e", "w", "s", ".", "b", "a", "s", "e">>

(***************************************************************************)
(* View classes and constructor arguments                                  *)
(***************************************************************************)
\* A view class: its __name__, the names of the classes it is an instance
\* of, and its class-level attributes.  get is "inherited" (the class does
\* not define get and uses AdminBaseView.get), "own", "None" (the class sets
\* get = None) or "inherited None" (a class above it sets get = None).
ClassOf(cname, mro, name, endpoint, url, get) ==
    [cname |-> cname, mro |-> mro, name |-> name, category |-> "None",
     endpoint |-> endpoint, url |-> url, get |-> get, _extension |-> "None"]

NoClass == ClassOf("NoneType", {}, None, None, None, "None")

ArgsOf(name, endpoint, url, extension, withAdmin) ==
    [name |-> name, category |-> "None", endpoint |-> endpoint, url |-> url,
     extension |-> extension, admin |-> withAdmin]

NoArgs == ArgsOf(None, None, None, "None", FALSE)

NoAdmin ==
    [status |-> "none", err |-> "", name |-> None, endpoint |-> None,
     url |-> None, base_template |-> "None", dashboard_view_class |-> NoClass,
     _menu_key |-> "None"]

\* isinstance(self, self.administration.dashboard_view_class)
isinstance(cls, dashboard_view_class) == dashboard_view_class.cname \in cls.mro

(***************************************************************************)
(* AdminBaseView                                                           *)
(***************************************************************************)
\* _get_endpoint: self.endpoint is still the class attribute when it runs
_get_endpoint(cls, name, endpoint) ==
    IF Truthy(endpoint) THEN endpoint
    ELSE IF ~Truthy(cls.endpoint)
         THEN IF name = None THEN AttributeError ELSE lower(name)
         ELSE None

\* _get_view_url without its dashboard branch
_get_view_url_no_dashboard(cls, adm, endpoint, url) ==
    IF url = None
    THEN IF adm.status = "none" THEN AttributeError
         ELSE <<"/">> \o PyStr(endpoint)
    ELSE IF startswith(url, "/") THEN url
         ELSE IF adm.status = "none" THEN AttributeError
              ELSE adm.url \o <<"/">> \o url

\* _get_view_url: adm is self.administration (NoAdmin when it is None)
_get_view_url(cls, adm, endpoint, url) ==
    IF url = None
    THEN IF adm.status = "none" THEN AttributeError
         ELSE IF isinstance(cls, adm.dashboard_view_class) THEN <<"/">>
              ELSE <<"/">> \o PyStr(endpoint)
    ELSE IF startswith(url, "/") THEN url
         ELSE IF adm.status = "none" THEN AttributeError
              ELSE adm.url \o <<"/">> \o url

\* a constructor that never refuses a class for its get
get_is_None_never(cls) == FALSE

\* self.get is None

get_is_None(cls) == cls.get \in {"None", "inherited None"}

Failed(cls, args, err) ==
    [status |-> "error", err |-> err, cls |-> cls, args |-> args,
     _extension |-> "None", name |-> None, category |-> "None",
     administration |-> FALSE, endpoint |-> None, url |-> None]

NoInstance == [Failed(NoClass, NoArgs, "") EXCEPT !.status = "none"]

\* AdminBaseView.__init__; adm is the admin argument (NoAdmin for None)
AdminBaseView_init(cls, args, adm) ==
    LET ext == IF cls._extension = "None" THEN args.extension
               ELSE cls._extension
        name == IF cls.name = None THEN args.name ELSE cls.name
        category == IF cls.category = "None" THEN args.category
                    ELSE cls.category
        endpoint == _get_endpoint(cls, name, args.endpoint)
        url == IF Truthy(args.url) THEN args.url
               ELSE _get_view_url(cls, adm, endpoint, cls.url)
    IN  IF endpoint = AttributeError \/ url = AttributeError
        THEN Failed(cls, args, "AttributeError")
        ELSE IF get_is_None(cls)
        THEN Failed(cls, args, "Exception: without a default GET view")
        ELSE [status |-> "ok", err |-> "", cls |-> cls, args |-> args,
              _extension |-> ext, name |-> name, category |-> category,
              administration |-> (adm.status # "none"),
              endpoint |-> endpoint, url |-> url]

\* the endpoint_location_name property
endpoint_location_name(view, adm) ==
    IF ~view.administration THEN view.endpoint
    ELSE adm.endpoint \o <<".">> \o PyStr(view.endpoint)

(***************************************************************************)
(* AdminMenu (invenio_administration/menu.py)                              *)
(***************************************************************************)
MenuItem(view, adm) ==
    [endpoint |-> endpoint_location_name(view, adm), name |-> view.name,
     category |-> view.category]

add_view_to_menu(menu, view, adm) == Append(menu, MenuItem(view, adm))

(***************************************************************************)
(* Administration                                                          *)
(***************************************************************************)
\* the registry while its constructor runs, lines 43-57
Administration_fields(dashboard_class, name, url, ui_endpoint) ==
    [status |-> "ok", err |-> "",
     name |-> IF name = None THEN DefaultName ELSE name,
     endpoint |-> IF Truthy(ui_endpoint) THEN ui_endpoint ELSE DefaultEndpoint,
     url |-> IF Truthy(url) THEN url ELSE DefaultUrl,
     base_template |-> DefaultBaseTemplate,
     dashboard_view_class |-> dashboard_class,
     _menu_key |-> "admin_navigation"]

\* as_view(...) of a class: the view function, known by its class
as_view(cls) == cls.cname

\* add_view forgetting the menu
add_view_no_menu(view, view_instance) ==
    /\ _views' = Append(_views, view)
    /\ blueprint' = Append(blueprint,
                           [rule |-> view_instance.url, view_func |-> view])
    /\ _menu' = _menu
    /\ passed' = Append(passed, view_instance)

\* add_view inserting at the front
add_view_front(view, view_instance) ==
    /\ _views' = <<view>> \o _views
    /\ blueprint' = <<[rule |-> view_instance.url, view_func |-> view]>>
                        \o blueprint
    /\ _menu' = <<MenuItem(view_instance, admin')>> \o _menu
    /\ passed' = Append(passed, view_instance)

\* add_view; admin' is the registry the call is made on
add_view(view, view_instance) ==
    /\ _views' = Append(_views, view)
    /\ blueprint' = Append(blueprint,
                           [rule |-> view_instance.url, view_func |-> view])
    /\ _menu' = add_view_to_menu(_menu, view_instance, admin')
    /\ passed' = Append(passed, view_instance)

DashboardArgs == ArgsOf(ModuleName, None, None, DashboardExtension, TRUE)

\* Administration.__init__ with ADMINISTRATION_DASHBOARD_VIEW naming
\* dashboard_class (NoClass: the key is absent or cannot be imported)
Administration(dashboard_class, name, url, ui_endpoint) ==
    /\ admin.status = "none"
    /\ LET self == Administration_fields(dashboard_class, name, url,
                                         ui_endpoint)
           dashboard_instance ==
               AdminBaseView_init(dashboard_class, DashboardArgs, self)
       IN  IF dashboard_class = NoClass
           THEN /\ admin' = [NoAdmin EXCEPT !.status = "error",
                                            !.err = "ImportError"]
                /\ UNCHANGED <<_views, _menu, blueprint, passed>>
           ELSE IF dashboard_instance.status # "ok"
           THEN /\ admin' = [NoAdmin EXCEPT !.status = "error",
                                            !.err = dashboard_instance.err]
                /\ UNCHANGED <<_views, _menu, blueprint, passed>>
           ELSE /\ admin' = self
                /\ add_view(as_view(dashboard_class), dashboard_instance)
    /\ UNCHANGED <<inst, rescls, resource, schema, out>>

\* a caller instantiates a view class
NewView(cls, args) ==
    /\ args.admin => admin.status = "ok"
    /\ admin.status = "ok" /\ cls.cname = admin.dashboard_view_class.cname
           => cls = admin.dashboard_view_class
    /\ inst' = AdminBaseView_init(cls, args,
                                  IF args.admin THEN admin ELSE NoAdmin)
    /\ UNCHANGED <<admin, _views, _menu, blueprint, passed,
                   rescls, resource, schema, out>>

\* a caller registers the view it instantiated
AddView ==
    /\ admin.status = "ok"
    /\ inst.status = "ok"
    /\ Len(passed) < MaxViews + 1
    /\ UNCHANGED <<admin, inst, rescls, resource, schema, out>>
    /\ add_view(as_view(inst.cls), inst)

(***************************************************************************)
(* Inputs                                                                  *)
(***************************************************************************)
S_records == <<"r", "e", "c", "o", "r", "d", "s">>
S_Records == <<"R">> \o Tail(S_records)
S_Dash == <<"D", "a", "s", "h">>
S_x == <<"x">>
S_rel == <<"r", "e", "l">>
S_abs == <<"/", "a", "b", "s">>
S_adm == <<"a", "d", "m">>
S_slash_adm == <<"/">> \o S_adm

BaseMro == {"AdminBaseView"}
DashMro == {"AdminDashboardView"} \cup BaseMro

\* the classes ADMINISTRATION_DASHBOARD_VIEW may name
DashClasses ==
    {ClassOf("AdminDashboardView", DashMro, n, e, u, g) :
        n \in {S_Dash}, e \in {None, S_records},
        u \in {None, S_rel, S_abs}, g \in {"inherited", "None"}}

\* subclasses of the dashboard class and unrelated view classes
OtherClasses ==
    {ClassOf(k[1], k[2], n, e, u, g) :
        k \in {<<"CustomDashboard", {"CustomDashboard"} \cup DashMro>>,
               <<"RecordsView", {"RecordsView"} \cup BaseMro>>},
        n \in {None, S_Records}, e \in {None, S_records},
        u \in {None, S_rel, S_abs},
        g \in {"inherited", "own", "None", "inherited None"}}

ViewArgs ==
    {ArgsOf(n, e, u, "None", a) :
        n \in {ModuleName, None}, e \in {None, S_x},
        u \in {None, <<>>, S_rel, S_abs}, a \in BOOLEAN}

AdminArgs == {<<None, None, None>>, <<S_adm, S_slash_adm, S_adm>>}

\* the registry's inputs of the registration runs
RegDashClasses ==
    {ClassOf("AdminDashboardView", DashMro, S_Dash, None, None, "inherited"),
     ClassOf("AdminDashboardView", DashMro, S_Dash, None, S_abs, "inherited"),
     ClassOf("AdminDashboardView", DashMro, S_Dash, None, None, "None"),
     NoClass}

RegClasses ==
    {ClassOf("RecordsView", {"RecordsView"} \cup BaseMro,
             S_Records, None, None, "inherited"),
     ClassOf("UsersView", {"UsersView"} \cup BaseMro,
             None, S_records, None, "own"),
     ClassOf("CustomDashboard", {"CustomDashboard"} \cup DashMro,
             None, None, None, "inherited"),
     ClassOf("BrokenView", {"BrokenView"} \cup BaseMro,
             S_Records, None, None, "None")}

RegArgs ==
    {ArgsOf(ModuleName, None, None, "None", TRUE),
     ArgsOf(ModuleName, S_x, S_rel, "None", TRUE),
     ArgsOf(ModuleName, S_x, S_abs, "None", FALSE),
     ArgsOf(ModuleName, None, None, "None", FALSE)}

(***************************************************************************)
(* Specifications                                                          *)
(***************************************************************************)
NoOutcome ==
    [op |-> "none", arg |-> "None", status |-> "none",
     err |-> [type |-> "", resource |-> "", view |-> ""],
     value |-> [template |-> "None", admin_base_template |-> "None",
                schema |-> "None",
                search_config |-> [config_name |-> None,
                                   available_facets |-> {},
                                   sort_options |-> {}, endpoint |-> "None",
                                   headers |-> "None"],
                resource |-> "None"]]

NoResClass == "None"

Init ==
    /\ admin = NoAdmin
    /\ _views = <<>>
    /\ _menu = <<>>
    /\ blueprint = <<>>
    /\ passed = <<>>
    /\ inst = NoInstance
    /\ rescls = NoResClass
    /\ resource = "None"
    /\ schema = "None"
    /\ out = NoOutcome

\* the registry: construction, view instantiation, registration
Next ==
    \/ \E d \in RegDashClasses, a \in AdminArgs :
           Administration(d, a[1], a[2], a[3])
    \/ \E c \in RegClasses \cup {admin.dashboard_view_class}, a \in RegArgs :
           c # NoClass /\ NewView(c, a)
    \/ AddView

Spec == Init /\ [][Next]_vars

\* view construction over every combination of class attributes and
\* arguments; a behaviour constructs the registry and one view
NextView ==
    \/ \E d \in DashClasses \cup {NoClass}, a \in AdminArgs :
           Administration(d, a[1], a[2], a[3])
    \/ \E c \in DashClasses \cup OtherClasses, a \in ViewArgs :
           inst = NoInstance /\ NewView(c, a)

SpecView == Init /\ [][NextView]_vars

(***************************************************************************)
(* The host application seen by the resource-bound views                   *)
(***************************************************************************)
\* current_app.extensions and the attributes of each extension
AppExtensions == {"invenio-users", "invenio-access"}

ExtensionAttrs(ext) ==
    IF ext = "invenio-users" THEN {"users_resource", "groups_resource"}
    ELSE IF ext = "invenio-access" THEN {"groups_resource"}
    ELSE {}

\* the resource object behind an attribute of an extension, and what the
\* views read from it
ResourceAt(ext, attr) == ext \o "." \o attr
ServiceSchema(res) == "schema of " \o res
ServiceFacets(res) == {"facets of " \o res}
ServiceSortOptions(res) == {"sort options of " \o res}
BlueprintName(res) == "blueprint of " \o res
\* the rule the mounted API application holds for an endpoint
ApiRule(endpoint) == "rule of " \o endpoint

\* current_app.config
AppConfigKeys == {"USERS_FACETS", "USERS_SORT"}
AppConfig(key) ==
    IF key = "USERS_FACETS" THEN {"configured facet"}
    ELSE {"configured sort option"}

SearchRequestHeaders == "Accept: application/vnd.inveniordm.v1+json"

(***************************************************************************)
(* Outcomes of calls                                                       *)
(***************************************************************************)
NoError == [type |-> "", resource |-> "", view |-> ""]
Error(type) == [type |-> type, resource |-> "", view |-> ""]
\* InvalidResource(resource=..., view=...)
InvalidResource(res, view) ==
    [type |-> "InvalidResource", resource |-> res, view |-> view]

NoSearchConfig ==
    [config_name |-> None, available_facets |-> {}, sort_options |-> {},
     endpoint |-> "None", headers |-> "None"]

NoValue ==
    [template |-> "None", admin_base_template |-> "None", schema |-> "None",
     search_config |-> NoSearchConfig, resource |-> "None"]

Returned(op, arg, value) ==
    [op |-> op, arg |-> arg, status |-> "ok", err |-> NoError, value |-> value]

Raised(op, arg, err) ==
    [op |-> op, arg |-> arg, status |-> "error", err |-> err,
     value |-> NoValue]

IsRaised(r) == r.status = "error"

(***************************************************************************)
(* AdminResourceBaseView, AdminResourceDetailView, AdminResourceListView   *)
(***************************************************************************)
\* a resource-bound view class: the AdminBaseView attributes and its own
ResourceClassOf(kind, ext, rc, facets, sorts, fkey, skey) ==
    [ClassOf(IF kind = "detail" THEN "UsersDetailView" ELSE "UsersListView",
             {IF kind = "detail" THEN "AdminResourceDetailView"
              ELSE "AdminResourceListView",
              "AdminResourceBaseView", "AdminBaseView"},
             <<"U", "s", "e", "r", "s">>, None, None, "own")
        EXCEPT !._extension = ext]
    @@ [kind |-> kind, resource_config |-> rc,
        template |-> IF kind = "detail"
                     THEN "invenio_administration/details.html"
                     ELSE "invenio_administration/search.html",
        available_facets |-> facets, sort_options |-> sorts,
        search_config_name |-> None,
        search_facets_config_name |-> fkey,
        search_sort_config_name |-> skey,
        search_api_endpoint |-> "None", columns |-> "None"]

\* AdminResourceBaseView.__init__
AdminResourceBaseView_init(cls, args, adm) ==
    LET self == AdminBaseView_init(cls, args, adm)
    IN  IF self.status # "ok" THEN self
        ELSE IF self._extension = "None"
        THEN Failed(cls, args,
                    "Exception: without an associated flask extension")
        ELSE IF cls.resource_config = "None"
        THEN Failed(cls, args, "Exception: without a resource")
        ELSE self

\* _get_view_extension: the extension's name, or a raised KeyError
_get_view_extension(cls, extension) ==
    LET key == IF extension # "None" THEN extension ELSE cls._extension
    IN  IF key \in AppExtensions THEN Returned("", "", [NoValue EXCEPT !.resource = key])
        ELSE Raised("", "", Error("KeyError"))

\* _get_resource without its except clause
_get_resource_swallow(cls, extension) ==
    LET ext == _get_view_extension(cls, extension)
    IN  IF IsRaised(ext) THEN ext
        ELSE IF cls.resource_config = "None"
        THEN Raised("", "", Error("TypeError"))
        ELSE IF cls.resource_config \notin ExtensionAttrs(ext.value.resource)
        THEN Raised("", "", Error("AttributeError"))
        ELSE Returned("", "", [NoValue EXCEPT !.resource =
                 ResourceAt(ext.value.resource, cls.resource_config)])

\* _get_resource
_get_resource(cls, extension) ==
    LET ext == _get_view_extension(cls, extension)
    IN  IF IsRaised(ext) THEN ext
        ELSE IF cls.resource_config = "None"
        THEN Raised("", "", Error("TypeError"))
        ELSE IF cls.resource_config \notin ExtensionAttrs(ext.value.resource)
        THEN Raised("", "", InvalidResource(cls.resource_config, cls.cname))
        ELSE Returned("", "", [NoValue EXCEPT !.resource =
                 ResourceAt(ext.value.resource, cls.resource_config)])

\* _get_service_schema: cls.resource.service.schema.schema()
_get_service_schema(cls, res) ==
    IF res = "None" THEN Raised("", "", Error("AttributeError"))
    ELSE Returned("", "", [NoValue EXCEPT !.schema = ServiceSchema(res)])

\* jsonify_schema (invenio_administration/marshmallow_utils.py)
jsonify_schema(sch) == "json of " \o sch

_schema_to_json(sch) == jsonify_schema(sch)

\* render: the template and the context handed to render_template
render(self, adm, context) ==
    IF ~self.administration THEN Raised("", "", Error("AttributeError"))
    ELSE Returned("", "", [context EXCEPT
             !.template = self.cls.template,
             !.admin_base_template = adm.base_template])

get_search_app_name(self) ==
    IF self.cls.search_config_name = None
    THEN upper(self.name) \o <<"_", "S", "E", "A", "R", "C", "H">>
    ELSE self.cls.search_config_name

get_search_request_headers(self) == SearchRequestHeaders

get_search_api_endpoint(self, res) ==
    IF res = "None" THEN Raised("", "", Error("AttributeError"))
    ELSE IF self.cls.search_api_endpoint # "None"
    THEN Returned("", "", [NoValue EXCEPT
             !.search_config.endpoint = self.cls.search_api_endpoint])
    ELSE Returned("", "", [NoValue EXCEPT !.search_config.endpoint =
             "/api/" \o ApiRule(BlueprintName(res) \o ".search")])

get_sort_options(self, res) ==
    IF self.cls.sort_options = {} THEN ServiceSortOptions(res)
    ELSE self.cls.sort_options

get_available_facets(self, res) ==
    IF self.cls.available_facets = {} THEN ServiceFacets(res)
    ELSE self.cls.available_facets

\* init_search_config: the keyword arguments bound to search_app_config,
\* evaluated in the order they are written
init_search_config(self, res) ==
    LET endpoint == get_search_api_endpoint(self, res)
    IN  IF self.cls.search_facets_config_name \notin AppConfigKeys
        THEN Raised("", "", Error("KeyError"))
        ELSE IF self.cls.search_sort_config_name \notin AppConfigKeys
        THEN Raised("", "", Error("KeyError"))
        ELSE IF IsRaised(endpoint) THEN endpoint
        ELSE Returned("", "", [NoValue EXCEPT !.search_config =
                 [config_name |-> get_search_app_name(self),
                  available_facets |->
                      AppConfig(self.cls.search_facets_config_name),
                  sort_options |-> AppConfig(self.cls.search_sort_config_name),
                  endpoint |-> endpoint.value.search_config.endpoint,
                  headers |-> get_search_request_headers(self)]])

\* AdminResourceDetailView.get
AdminResourceDetailView_get(self, adm, res) ==
    LET sch == _get_service_schema(self.cls, res)
    IN  IF IsRaised(sch) THEN sch
        ELSE render(self, adm,
                    [NoValue EXCEPT !.schema = _schema_to_json(sch.value.schema)])

\* AdminResourceListView.get
AdminResourceListView_get(self, adm, res) ==
    LET search_conf == init_search_config(self, res)
        sch == _get_service_schema(self.cls, res)
    IN  IF IsRaised(search_conf) THEN search_conf
        ELSE IF IsRaised(sch) THEN sch
        ELSE render(self, adm,
                    [NoValue EXCEPT
                        !.search_config = search_conf.value.search_config,
                        !.schema = sch.value.schema])

Outcome(op, arg, r) == [r EXCEPT !.op = op, !.arg = arg]

\* a caller instantiates the resource-bound view class
NewResourceView(args) ==
    /\ args.admin => admin.status = "ok"
    /\ inst' = AdminResourceBaseView_init(rescls, args,
                   IF args.admin THEN admin ELSE NoAdmin)
    /\ out' = IF inst'.status = "ok"
              THEN Returned("new", args.extension, NoValue)
              ELSE Raised("new", args.extension, Error(inst'.err))
    /\ UNCHANGED <<regvars, resvars>>

\* set_resource assigning None when the lookup raises
set_resource_clear_on_error(extension) ==
    LET r == _get_resource(rescls, extension)
    IN  /\ resource' = IF IsRaised(r) THEN "None" ELSE r.value.resource
        /\ out' = Outcome("set_resource", extension, r)
        /\ UNCHANGED <<regvars, inst, rescls, schema>>

\* the classmethod set_resource
set_resource(extension) ==
    LET r == _get_resource(rescls, extension)
    IN  /\ resource' = IF IsRaised(r) THEN resource ELSE r.value.resource
        /\ out' = Outcome("set_resource", extension, r)
        /\ UNCHANGED <<regvars, inst, rescls, schema>>

\* the classmethod set_schema
set_schema ==
    LET r == _get_service_schema(rescls, resource)
    IN  /\ schema' = IF IsRaised(r) THEN schema ELSE r.value.schema
        /\ out' = Outcome("set_schema", "None", r)
        /\ UNCHANGED <<regvars, inst, rescls, resource>>

\* a GET request reaches the view instance
Get ==
    /\ inst.status = "ok"
    /\ out' = IF rescls.kind = "detail"
              THEN Outcome("detail_get", "None",
                           AdminResourceDetailView_get(inst, admin, resource))
              ELSE Outcome("list_get", "None",
                           AdminResourceListView_get(inst, admin, resource))
    /\ UNCHANGED <<regvars, inst, resvars>>

ResourceClasses ==
    {ResourceClassOf("detail", e, rc, {}, {}, "None", "None") :
        e \in {"None", "invenio-users", "not-installed"},
        rc \in {"None", "users_resource", "groups_resource",
                "missing_resource"}}
    \cup
    {ResourceClassOf("list", e, rc, f, so, k[1], k[2]) :
        e \in {"None", "invenio-users", "not-installed"},
        rc \in {"None", "users_resource", "groups_resource",
                "missing_resource"},
        f \in {{}, {"declared facet"}}, so \in {{}, {"declared sort option"}},
        k \in {<<"None", "None">>, <<"USERS_FACETS", "USERS_SORT">>}}

ResourceViewArgs ==
    {ArgsOf(ModuleName, None, None, "None", TRUE),
     ArgsOf(ModuleName, None, None, "invenio-users", TRUE),
     ArgsOf(ModuleName, None, S_abs, "invenio-users", FALSE)}

RegDashboard ==
    ClassOf("AdminDashboardView", DashMro, S_Dash, None, None, "inherited")

InitRes ==
    /\ admin = NoAdmin
    /\ _views = <<>>
    /\ _menu = <<>>
    /\ blueprint = <<>>
    /\ passed = <<>>
    /\ inst = NoInstance
    /\ rescls \in ResourceClasses
    /\ resource = "None"
    /\ schema = "None"
    /\ out = NoOutcome

\* the life of one resource-bound view class
NextRes ==
    \/ Administration(RegDashboard, None, None, None)
    \/ \E a \in ResourceViewArgs : NewResourceView(a)
    \/ \E e \in {"None", "invenio-users", "invenio-access", "not-installed"} :
           set_resource(e)
    \/ set_schema
    \/ Get

SpecRes == InitRes /\ [][NextRes]_vars

(***************************************************************************)
(* Claims about the registry (Spec)                                        *)
(***************************************************************************)
\* '<registry-endpoint>.<view-endpoint>' of a registered view
RegistryDotEndpoint(view) == admin.endpoint \o <<".">> \o PyStr(view.endpoint)

\* what endpoint_location_name is expected to give
LocationName(view) ==
    IF view.administration THEN RegistryDotEndpoint(view) ELSE view.endpoint

MenuEntriesAt(e) == {j \in 1..Len(_menu) : _menu[j].endpoint = e}

\* C1 as stated: for every view instance passed to add_view (the dashboard
\* included, the same instance or an equal endpoint passed twice included) the
\* menu holds exactly one entry whose endpoint is
\* '<registry-endpoint>.<view-endpoint>'.
C1_ExactlyOneMenuEntry ==
    \A i \in 1..Len(passed) :
        passed[i].administration =>
            Cardinality(MenuEntriesAt(RegistryDotEndpoint(passed[i]))) = 1

\* C1 amended: the menu holds one entry per add_view call, in call order, each
\* with the endpoint_location_name of the instance passed, so the entries with
\* a view's endpoint_location_name are as many as the calls that passed an
\* instance with that endpoint_location_name; endpoint_location_name is
\* '<registry-endpoint>.<view-endpoint>' for an instance that holds the
\* registry and the bare endpoint for one constructed without it.
C1_OneMenuEntryPerCall ==
    /\ Len(_menu) = Len(passed)
    /\ \A i \in 1..Len(passed) :
        /\ _menu[i].endpoint = LocationName(passed[i])
        /\ Cardinality(MenuEntriesAt(LocationName(passed[i])))
             = Cardinality({k \in 1..Len(passed) :
                              LocationName(passed[k]) = LocationName(passed[i])})

\* C1 witness: the same endpoint was registered twice and has two entries
C1_Witness ==
    \E i, k \in 1..Len(passed) :
        /\ i < k
        /\ passed[i].administration /\ passed[k].administration
        /\ passed[i].endpoint = passed[k].endpoint
        /\ Cardinality(MenuEntriesAt(RegistryDotEndpoint(passed[i]))) = 2

RegisteredInCallOrder ==
    /\ Len(_views) = Len(passed)
    /\ Len(_menu) = Len(passed)
    /\ Len(blueprint) = Len(passed)
    /\ \A i \in 1..Len(passed) :
        /\ _views[i] = passed[i].cls.cname
        /\ blueprint[i].view_func = passed[i].cls.cname
        /\ blueprint[i].rule = passed[i].url
        /\ _menu[i].name = passed[i].name

DashboardFirst ==
    /\ Len(passed) >= 1
    /\ passed[1].cls = admin.dashboard_view_class
    /\ passed[1].args = DashboardArgs
    /\ _views[1] = admin.dashboard_view_class.cname
    /\ _menu[1].endpoint = RegistryDotEndpoint(passed[1])

C6_NoOwnGetFails == inst.status = "ok" => inst.cls.get = "own"

\* C6 amended: instantiation fails when the class's get attribute is None
\* (set by the class or by a class above it), so no such view is ever
\* registered; a class that defines no get of its own inherits
\* AdminBaseView.get and is not refused for it.
C6_GetNoneFails ==
    /\ inst.status = "ok" => inst.cls.get \in {"own", "inherited"}
    /\ inst.cls.get \in {"own", "inherited"}
         => inst.err # "Exception: without a default GET view"
    /\ \A i \in 1..Len(passed) : passed[i].cls.get \in {"own", "inherited"}

\* C6 witness: a view of a class without its own get was registered, and
\* a class whose get is None was refused
C6_Witness ==
    /\ inst.status = "error"
    /\ inst.cls.get = "None"
    /\ inst.err = "Exception: without a default GET view"
    /\ \E i \in 2..Len(passed) : passed[i].cls.get = "inherited"

(***************************************************************************)
(* Claims about view construction (SpecView)                               *)
(***************************************************************************)
\* the instance under construction holds the registry
Constructed == inst.status = "ok" /\ inst.administration

IsDashboardInstance == inst.cls = admin.dashboard_view_class

C3_RelativeUrlArgumentPrefixed ==
    (Constructed /\ ~isinstance(inst.cls, admin.dashboard_view_class)
        /\ Truthy(inst.args.url)) =>
        inst.url = IF startswith(inst.args.url, "/") THEN inst.args.url
                   ELSE admin.url \o <<"/">> \o inst.args.url

\* the endpoint C4 expects: the explicit one, else the lower-cased name
ExplicitEndpoint ==
    IF Truthy(inst.args.endpoint) THEN inst.args.endpoint
    ELSE IF Truthy(inst.cls.endpoint) THEN inst.cls.endpoint
    ELSE lower(inst.name)

\* C4: the resolved endpoint is the explicit endpoint (constructor argument
\* or class attribute) if given and else the lower-cased name, never empty or
\* undefined; without any url a non-dashboard view has url
\* '/<resolved-endpoint>' and menu endpoint
\* '<registry-endpoint>.<resolved-endpoint>'.
C4_EndpointResolved ==
    Constructed =>
        /\ inst.endpoint = ExplicitEndpoint
        /\ Truthy(inst.endpoint)
        /\ (/\ ~Truthy(inst.args.url) /\ inst.cls.url = None
            /\ ~isinstance(inst.cls, admin.dashboard_view_class))
             => /\ inst.url = <<"/">> \o ExplicitEndpoint
                /\ endpoint_location_name(inst, admin)
                     = admin.endpoint \o <<".">> \o ExplicitEndpoint

(***************************************************************************)
(* Claims about resource-bound views (SpecRes)                             *)
(***************************************************************************)
\* the extension a call on the class resolves: the argument, else _extension
ResolvedExtension(arg) == IF arg # "None" THEN arg ELSE rescls._extension

NamesMissingAttribute(ext) ==
    /\ ext \in AppExtensions
    /\ rescls.resource_config # "None"
    /\ rescls.resource_config \notin ExtensionAttrs(ext)

C9_SearchConfigUsesViewOptions ==
    (out.op = "list_get" /\ out.status = "ok") =>
        /\ out.value.search_config.available_facets
             = get_available_facets(inst, resource)
        /\ out.value.search_config.sort_options
             = get_sort_options(inst, resource)

IsGet(o) == o.op \in {"detail_get", "list_get"}

\* C10 as stated: a GET succeeds only after both set_resource and set_schema
\* have succeeded.
C10_GetNeedsResourceAndSchema ==
    (IsGet(out) /\ out.status = "ok") => resource # "None" /\ schema # "None"

\* C10 amended: a GET succeeds only after a successful set_resource
\* (set_schema is not needed: GET reads the schema from the resource); a
\* set_schema or detail GET before a successful set_resource fails with an
\* attribute error, a list GET before it fails too, and both leave resource
\* and schema None; a set_resource that fails leaves resource unchanged.
C10_GetNeedsResource ==
    [][/\ (IsGet(out') /\ out'.status = "ok") => resource # "None"
       /\ (out'.op \in {"set_schema", "detail_get"} /\ resource = "None") =>
            /\ out'.status = "error"
            /\ out'.err.type = "AttributeError"
            /\ resource' = "None" /\ schema' = "None"
       /\ (out'.op = "list_get" /\ resource = "None") =>
            /\ out'.status = "error"
            /\ resource' = "None" /\ schema' = "None"
       /\ (out'.op = "set_resource" /\ out'.status = "error") =>
            resource' = resource]_vars

\* C10 witness: a detail GET succeeded although set_schema never ran
C10_Witness ==
    /\ out.op = "detail_get" /\ out.status = "ok"
    /\ resource # "None"
    /\ schema = "None"

====
